---- MODULE Spec2Model ----
(***************************************************************************)
(* A model of the Secret Mafia turn engine (SecretMafiaEnv): reset, the    *)
(* seven phase handlers, the phase controller _transition_current_pid and  *)
(* the win evaluator.  One Next step is one call of SecretMafiaEnv.step.   *)
(***************************************************************************)
EXTENDS Integers, Sequences, FiniteSets, TLC

(* ------------------------------------------------------------------ *)
(* Program constants                                                    *)
(* ------------------------------------------------------------------ *)

\* ta.State(num_players, min_players=5, ...)
MinPlayers == 5

\* self.num_discussion_rounds = 2, set by reset
NumDiscussionRounds == 2

\* discussion_rounds: int = 3, the constructor's default
DefaultDiscussionRounds == 3

\* ta.GAME_ID: the sender of the engine's own messages
GAME_ID == -1

\* to_id = -1: the broadcast recipient
BROADCAST == -1

\* DEBUG_ID: the recipient of diagnostics, never a player's history
DEBUG_ID == -2

\* Python's None in to_be_eliminated and in the result of _evaluate_votes
None == -1

(* ------------------------------------------------------------------ *)
(* Bounds of the model                                                  *)
(* ------------------------------------------------------------------ *)

\* Days played to their vote; the night that follows the last one is played too.
MaxDay == 1

\* reset seeds are drawn from 0..MaxSeed.
MaxSeed == 1

\* The texts given to parse_xml_content have at most MaxTextLen pieces.
MaxTextLen == 4

\* A HonchoAgent is called until its session holds MaxMessages messages.
MaxMessages == 3

\* Games of up to MaxPlayedSize players are played; larger ones are reset only.
MaxPlayedSize == 8

\* States of the process-wide generator before reset is called.  With the
\* default ratio, 23 deals <<Doctor, Mafia, Villager, Detective, Villager>> and
\* 26 deals <<Detective, Doctor, Villager, Mafia, Villager>>.
PriorRngStates == {23, 26}

\* mafia_ratio values given to the constructor, as <<numerator, denominator>>:
\* the default 0.25 and 0.4 (two Mafia among five players).
MafiaRatios == {<<1, 4>>, <<2, 5>>}

\* num_players values given to reset.
NumPlayersChoices == {MinPlayers}

\* ta.State(num_players, min_players=5, max_players=15, ...)
MaxPlayers == 15

\* The mafia_ratio and num_players values the role assignment is examined
\* with: the ratios above and 0.8, and every admitted number of players.
ResetRatios == MafiaRatios \cup {<<4, 5>>}

ResetNumPlayers == MinPlayers..MaxPlayers

\* The discussion_rounds given to the constructor.
DiscussionRoundsChoices == {1, DefaultDiscussionRounds}

\* Player ids an action may refer to: two players and one id out of range.
TargetIds == {0, 1, MinPlayers}

Phases ==
    {"Night-Mafia-Discussion", "Night-Mafia", "Night-Doctor", "Night-Detective",
     "Day-Private-Reflection", "Day-Discussion", "Day-Voting"}

NightPhases ==
    {"Night-Mafia-Discussion", "Night-Mafia", "Night-Doctor", "Night-Detective"}

\* Phases whose handler looks for a [N] / [player N] reference.
TargetPhases ==
    {"Night-Mafia-Discussion", "Night-Mafia", "Night-Doctor", "Night-Detective",
     "Day-Voting"}

(* ------------------------------------------------------------------ *)
(* Sequences as Python lists                                            *)
(* ------------------------------------------------------------------ *)

Range(f) == {f[i] : i \in DOMAIN f}

InList(x, l) == \E i \in 1..Len(l) : l[i] = x

\* Mutant of RemoveFirst: x is dropped from the list of all the players, so
\* that the players dropped earlier are back.
RemoveFromAll(l, x) ==
    SelectSeq([i \in 1..MinPlayers |-> i - 1], LAMBDA p : p # x)

\* Mutant of RemoveFirst: the list keeps x.
RemoveNothing(l, x) == l

\* list.remove(x): the first occurrence is dropped.
RemoveFirst(l, x) ==
    LET i == CHOOSE k \in 1..Len(l) : l[k] = x /\ \A j \in 1..(k-1) : l[j] # x
    IN [k \in 1..(Len(l)-1) |-> IF k < i THEN l[k] ELSE l[k+1]]

\* l * n
RECURSIVE Repeat(_, _)
Repeat(l, n) == IF n <= 0 THEN <<>> ELSE l \o Repeat(l, n-1)

Swap(l, i, j) == [l EXCEPT ![i] = l[j], ![j] = l[i]]

Max(S) == CHOOSE x \in S : \A y \in S : y <= x

(* ------------------------------------------------------------------ *)
(* The process-wide random generator                                    *)
(* ------------------------------------------------------------------ *)

\* One draw advances the generator's state.
RngNext(s) == (s * 37 + 11) % 101

\* random.seed(seed)
SeedRng(sd) == (sd * 17 + 5) % 101

\* random.shuffle(x): for i = len-1 down to 1, swap x[i] with x[randbelow(i+1)].
RECURSIVE ShuffleFrom(_, _, _)
ShuffleFrom(x, i, s) ==
    IF i < 2 THEN [list |-> x, rng |-> s]
    ELSE LET s1 == RngNext(s)
             j  == (s1 % i) + 1
         IN ShuffleFrom(Swap(x, i, j), i - 1, s1)

Shuffle(x, s) == ShuffleFrom(x, Len(x), s)

(* ------------------------------------------------------------------ *)
(* Role assignment                                                      *)
(* ------------------------------------------------------------------ *)

\* Mutant of RoundHalfEven: halves go up.
RoundHalfUp(n, d) == (2 * n + d) \div (2 * d)

\* Python's round(n / d) for n, d > 0: halves go to the even neighbour.
RoundHalfEven(n, d) ==
    LET q == n \div d
        r == n % d
    IN IF 2 * r < d THEN q
       ELSE IF 2 * r > d THEN q + 1
       ELSE IF q % 2 = 0 THEN q ELSE q + 1

\* num_mafia = max(1, round(num_players * self.mafia_ratio))
NumMafia(n, ratio) ==
    LET m == RoundHalfEven(n * ratio[1], ratio[2])
    IN IF m < 1 THEN 1 ELSE m

\* role_pool = ["Mafia"] * num_mafia + ["Doctor"] + ["Detective"] + ["Villager"] * rest
RolePool(n, ratio) ==
    LET base == Repeat(<<"Mafia">>, NumMafia(n, ratio)) \o <<"Doctor", "Detective">>
    IN base \o Repeat(<<"Villager">>, n - Len(base))

\* _assign_roles: the pool is shuffled with the generator as it stands and
\* player i gets role_pool[i].  Returns the roles and the generator's new state.
AssignRoles(n, ratio, s) ==
    LET sh == Shuffle(RolePool(n, ratio), s)
    IN [roles |-> [p \in 0..(n-1) |-> sh.list[p+1]], rng |-> sh.rng]

(* ------------------------------------------------------------------ *)
(* State                                                                *)
(* ------------------------------------------------------------------ *)

VARIABLES
    mafia_ratio,          \* constructor argument, <<numerator, denominator>>
    discussion_rounds,    \* constructor argument
    num_players,          \* reset argument
    seed,                 \* reset argument
    rng,                  \* state of the process-wide generator
    player_roles,         \* game_state["player_roles"]
    phase,                \* game_state["phase"]
    day_number,           \* game_state["day_number"]
    alive_players,        \* game_state["alive_players"], a list
    votes,                \* game_state["votes"], <<voter, target>> in insertion order
    to_be_eliminated,     \* game_state["to_be_eliminated"]
    kill_suggestions,     \* game_state["kill_suggestions"], target -> count
    detective_inspected,  \* game_state["detective_inspected"], a list
    next_player_ids,      \* the players still queued for the current phase
    current_player_id,    \* state.current_player_id
    done,                 \* state.done
    winners,              \* the player_ids of the last set_winners
    obs,                  \* the observations emitted by the last reset or step
    action,               \* the action given to the last step
    lastMove,             \* "reset", "valid" or "invalid": how the last call ended
    trail,                \* the phases entered by the last reset or step, in order
    finalized,            \* the finalizations of the last step: <<kind, eliminated>>
    cycle,                \* day votes finalized so far (bounds the exploration)
    turns,                \* accepted turns of each player in the current phase
    csv_log,              \* the rows CSVLoggerWrapper wrote during the last reset or step
    xml_call,             \* the last call of parse_xml_content and what it returned
    honcho_agent          \* a HonchoAgent, its memory strategy and its last call

\* The environment, its wrapper and the record of its last call.
envVars ==
    <<mafia_ratio, discussion_rounds, num_players, seed, rng, player_roles, phase,
      day_number, alive_players, votes, to_be_eliminated, kill_suggestions,
      detective_inspected, next_player_ids, current_player_id, done, winners, obs,
      action, lastMove, trail, finalized, cycle, turns, csv_log>>

vars == <<envVars, xml_call, honcho_agent>>

\* The actions an agent may submit: whether the text holds the phase's
\* <tag>...</tag> pair, and the player references inside it, in order.
ActionInputs ==
    {[tag |-> FALSE, refs |-> <<0>>], [tag |-> TRUE, refs |-> <<>>]}
    \cup {[tag |-> TRUE, refs |-> <<t>>] : t \in TargetIds}

NoAction == [tag |-> FALSE, refs |-> <<>>]

\* An observation: state.add_observation(from_id, to_id, message).
Msg(from, to, kind, arg) == [from |-> from, to |-> to, kind |-> kind, arg |-> arg]

(* ------------------------------------------------------------------ *)
(* Queries on a game state record s                                     *)
(* ------------------------------------------------------------------ *)

Pids(s) == [i \in 1..s.num_players |-> i - 1]

IsAlive(s, p) == InList(p, s.alive_players)

\* Mutant of AliveMafiaPids: the Mafia, dead or alive.
MafiaPidsDeadOrAlive(s) ==
    LET Test(p) == s.player_roles[p] = "Mafia"
    IN SelectSeq(Pids(s), Test)

\* [pid for pid, role in player_roles.items() if role == "Mafia" and pid in alive_players]
AliveMafiaPids(s) ==
    LET Test(p) == s.player_roles[p] = "Mafia" /\ IsAlive(s, p)
    IN SelectSeq(Pids(s), Test)

\* [pid for pid, role in player_roles.items() if role == r][0]
RolePid(s, r) ==
    LET Test(p) == s.player_roles[p] = r
    IN SelectSeq(Pids(s), Test)[1]

\* [pid for pid, role in player_roles.items() if role != "Detective"]
NotDetectivePids(s) ==
    LET Test(p) == s.player_roles[p] # "Detective"
    IN SelectSeq(Pids(s), Test)

\* state.add_observation(from_id, to_id, message), once for each message.
\* Where CSVLoggerWrapper has replaced the method, the row is written first
\* and the original method is called with the same arguments.
Emit(s, msgs) ==
    [s EXCEPT !.obs = @ \o msgs,
              !.csv_log = IF s.add_observation_wrapped THEN @ \o msgs ELSE @]

EmitTo(s, from, pids, kind, arg) ==
    Emit(s, [i \in 1..Len(pids) |-> Msg(from, pids[i], kind, arg)])

(* ------------------------------------------------------------------ *)
(* ta.State: the part of the engine kept outside the environment        *)
(* ------------------------------------------------------------------ *)

\* state.set_winners(player_ids, reason): terminal, with these winners.
SetWinners(s, pids) == [s EXCEPT !.done = TRUE, !.winners = pids]

\* state.set_invalid_move(player_id, reason): the error is recorded and the
\* player keeps the turn.
SetInvalidMove(s) == [s EXCEPT !.prevent_player_change = TRUE]

\* state.manually_update_current_player(new_player_id)
ManuallyUpdateCurrentPlayer(s, p) ==
    IF s.prevent_player_change THEN s ELSE [s EXCEPT !.current_player_id = p]

(* ------------------------------------------------------------------ *)
(* Win evaluator                                                        *)
(* ------------------------------------------------------------------ *)

\* Mutant of MafiaHasHalf: the halved count is rounded down.
MafiaHasHalfFloored(nMafia, nAlive) == nMafia >= nAlive \div 2

\* len(alive_mafia_members) >= len(alive_players) / 2, a true division
MafiaHasHalf(nMafia, nAlive) == 2 * nMafia >= nAlive

\* Mutant of VillagerPids: only the villagers still alive.
VillagerPidsAlive(s) ==
    {p \in 0..(s.num_players-1) : s.player_roles[p] # "Mafia" /\ IsAlive(s, p)}

\* villager_pids = [pid for pid, role in player_roles.items() if role != "Mafia"]
VillagerPids(s) == {p \in 0..(s.num_players-1) : s.player_roles[p] # "Mafia"}

\* mafia_pids = [pid for pid, role in player_roles.items() if role == "Mafia"]
MafiaPids(s) == {p \in 0..(s.num_players-1) : s.player_roles[p] = "Mafia"}

\* Mutant of NoMafiaLeft: the test never succeeds.
NoMafiaLeftUnnoticed(nMafia) == FALSE

\* not alive_mafia_members
NoMafiaLeft(nMafia) == nMafia = 0

\* _check_winning_conditions: two independent tests, in this order.
CheckWinningConditions(s) ==
    LET nMafia == Len(AliveMafiaPids(s))
        s1 == IF NoMafiaLeft(nMafia)
              THEN SetWinners(s, VillagerPids(s))
              ELSE s
    IN IF MafiaHasHalf(nMafia, Len(s.alive_players))
       THEN SetWinners(s1, MafiaPids(s))
       ELSE s1

(* ------------------------------------------------------------------ *)
(* Phase controller                                                     *)
(* ------------------------------------------------------------------ *)

\* [pid for pid, role in player_roles.items() if role != r and pid in alive_players]
AliveNotRole(s, r) ==
    LET Test(p) == s.player_roles[p] # r /\ IsAlive(s, p)
    IN SelectSeq(Pids(s), Test)

\* Mutant of MafiaDiscussionOrder: one suggestion turn for each Mafia.
MafiaDiscussionOrderOnce(sh) == sh.list

\* The order of the Mafia's suggestion turns: mafia_pids shuffled, then doubled.
MafiaDiscussionOrder(sh) == sh.list \o sh.list

\* Mutant of DiscussionOrder: nobody is queued for the discussion.
DiscussionOrderNobody(sh) == <<>>

\* The order of the discussion turns: next_players * self.num_discussion_rounds
DiscussionOrder(sh) == Repeat(sh.list, NumDiscussionRounds)

\* _phase_transition_player_prompts(new_phase): the prompts of the phase are
\* emitted and next_player_ids is set for it.
PhaseTransitionPlayerPrompts(s, new_phase) ==
    CASE new_phase = "Night-Mafia-Discussion" ->
            LET mafia_pids == AliveMafiaPids(s)
                sh == Shuffle(mafia_pids, s.rng)
                s1 == EmitTo(s, GAME_ID, mafia_pids, "mafia_discussion_prompt",
                             AliveNotRole(s, "Mafia"))
            IN [s1 EXCEPT !.rng = sh.rng, !.next_player_ids = MafiaDiscussionOrder(sh)]
      [] new_phase = "Night-Mafia" ->
            LET mafia_pids == AliveMafiaPids(s)
                sh == Shuffle(mafia_pids, s.rng)
                s1 == EmitTo(s, GAME_ID, mafia_pids, "mafia_vote_prompt",
                             AliveNotRole(s, "Mafia"))
            IN [s1 EXCEPT !.rng = sh.rng, !.next_player_ids = sh.list]
      [] new_phase = "Night-Doctor" ->
            LET d_pid == RolePid(s, "Doctor")
                s1 == EmitTo(s, GAME_ID, <<d_pid>>, "doctor_prompt",
                             AliveNotRole(s, "Doctor"))
            IN [s1 EXCEPT !.next_player_ids = <<d_pid>>]
      [] new_phase = "Night-Detective" ->
            LET d_pid == RolePid(s, "Detective")
            IN IF IsAlive(s, d_pid)
               THEN [EmitTo(s, GAME_ID, <<d_pid>>, "detective_prompt",
                            AliveNotRole(s, "Detective"))
                       EXCEPT !.next_player_ids = <<d_pid>>]
               ELSE s
      [] new_phase = "Day-Private-Reflection" ->
            LET sh == Shuffle(s.alive_players, s.rng)
                s1 == EmitTo(s, GAME_ID, s.alive_players, "reflection_prompt", <<>>)
            IN [s1 EXCEPT !.rng = sh.rng, !.next_player_ids = sh.list]
      [] new_phase = "Day-Discussion" ->
            LET sh == Shuffle(s.alive_players, s.rng)
                s1 == EmitTo(s, GAME_ID, <<BROADCAST>>, "discussion_prompt", <<>>)
            IN [s1 EXCEPT !.rng = sh.rng, !.next_player_ids = DiscussionOrder(sh)]
      [] new_phase = "Day-Voting" ->
            LET sh == Shuffle(s.alive_players, s.rng)
                s1 == EmitTo(s, GAME_ID, <<BROADCAST>>, "voting_prompt", s.alive_players)
            IN [s1 EXCEPT !.rng = sh.rng, !.next_player_ids = sh.list]

\* Mutant of NewPhase: Night-Mafia is followed by Night-Doctor whether or not
\* the Doctor is alive.
NewPhaseDoctorUnchecked(s) ==
    LET current_phase == s.phase
        detectiveAlive == IsAlive(s, RolePid(s, "Detective"))
    IN CASE current_phase = "Night-Mafia-Discussion" -> "Night-Mafia"
         [] current_phase = "Night-Mafia" -> "Night-Doctor"
         [] current_phase = "Night-Doctor" ->
                IF detectiveAlive THEN "Night-Detective" ELSE "Day-Private-Reflection"
         [] current_phase = "Night-Detective" -> "Day-Private-Reflection"
         [] current_phase = "Day-Private-Reflection" -> "Day-Discussion"
         [] current_phase = "Day-Discussion" -> "Day-Voting"
         [] current_phase = "Day-Voting" -> "Night-Mafia-Discussion"
         [] OTHER -> "Day-Private-Reflection"

\* The successor of current_phase, with the Doctor and Detective guards.
NewPhase(s) ==
    LET current_phase == s.phase
        doctorAlive == IsAlive(s, RolePid(s, "Doctor"))
        detectiveAlive == IsAlive(s, RolePid(s, "Detective"))
    IN CASE current_phase = "Night-Mafia-Discussion" -> "Night-Mafia"
         [] current_phase = "Night-Mafia" ->
                IF doctorAlive THEN "Night-Doctor"
                ELSE IF detectiveAlive THEN "Night-Detective"
                ELSE "Day-Private-Reflection"
         [] current_phase = "Night-Doctor" ->
                IF detectiveAlive THEN "Night-Detective" ELSE "Day-Private-Reflection"
         [] current_phase = "Night-Detective" -> "Day-Private-Reflection"
         [] current_phase = "Day-Private-Reflection" -> "Day-Discussion"
         [] current_phase = "Day-Discussion" -> "Day-Voting"
         [] current_phase = "Day-Voting" -> "Night-Mafia-Discussion"
         [] OTHER -> "Day-Private-Reflection"

\* Mutant of ResetVotes: the votes are kept.
ResetVotesKeepsVotes(s) == [s EXCEPT !.to_be_eliminated = None]

\* game_state["votes"] = {}; game_state["to_be_eliminated"] = None
ResetVotes(s) == [s EXCEPT !.votes = <<>>, !.to_be_eliminated = None]

\* The elimination processed when a night (kind "night") or a day (kind "day")
\* ends: the broadcast, the removal, the reset of votes and to_be_eliminated,
\* and the win evaluation.
ProcessElimination(s, kind) ==
    LET tbe_pid == s.to_be_eliminated
        s1 == IF tbe_pid # None /\ IsAlive(s, tbe_pid)
              THEN [s EXCEPT !.alive_players = RemoveFirst(@, tbe_pid)]
              ELSE s
        s2 == Emit(s1, <<Msg(GAME_ID, BROADCAST,
                             IF kind = "night" THEN "night_elimination"
                                               ELSE "day_elimination",
                             IF tbe_pid = None THEN <<>> ELSE <<tbe_pid>>)>>)
        s3 == ResetVotes(s2)
        s4 == CheckWinningConditions(s3)
    IN [s4 EXCEPT !.finalized = Append(@,
                      [kind |-> kind, tbe |-> tbe_pid,
                       mafia |-> Len(AliveMafiaPids(s4)),
                       alive |-> Len(s4.alive_players),
                       won |-> s4.done]),
                  !.cycle = IF kind = "day" THEN @ + 1 ELSE @]

\* The body of "if not self.next_player_ids": the phase changes and the queue
\* is replenished.
AdvancePhase(s) ==
    LET new_phase == NewPhase(s)
        s1 == IF new_phase = "Day-Private-Reflection"
                 /\ s.phase # "Day-Private-Reflection"
              THEN ProcessElimination(s, "night")
              ELSE IF new_phase = "Night-Mafia-Discussion"
                      /\ s.phase # "Night-Mafia-Discussion"
              THEN ProcessElimination(s, "day")
              ELSE s
        s2 == [s1 EXCEPT !.phase = new_phase, !.trail = Append(@, new_phase)]
    IN PhaseTransitionPlayerPrompts(s2, new_phase)

\* Mutant of PopNext: the last element is read and left on the list.
PopNextKeepsList(s) ==
    ManuallyUpdateCurrentPlayer(s, s.next_player_ids[Len(s.next_player_ids)])

\* next_pid = self.next_player_ids.pop(): the last element is taken.
PopNext(s) ==
    LET n == Len(s.next_player_ids)
    IN ManuallyUpdateCurrentPlayer(
           [s EXCEPT !.next_player_ids = SubSeq(@, 1, n - 1)],
           s.next_player_ids[n])

\* _transition_current_pid
RECURSIVE TransitionCurrentPid(_)
TransitionCurrentPid(s) ==
    IF s.prevent_player_change THEN s
    ELSE LET s1 == IF s.next_player_ids = <<>> THEN AdvancePhase(s) ELSE s
         IN IF s1.next_player_ids = <<>> THEN TransitionCurrentPid(s1)
            ELSE PopNext(s1)

(* ------------------------------------------------------------------ *)
(* Action parser                                                        *)
(* ------------------------------------------------------------------ *)

\* A text as parse_xml_content reads it, for a tag T: a sequence of pieces,
\* each the opening tag, the closing tag, a character that is not white
\* space, or a blank.
TextPieces == {"<T>", "</T>", "x", " "}

WhiteSpace == {" "}

Texts == UNION {[1..n -> TextPieces] : n \in 0..MaxTextLen}

\* [m.start() for m in re.finditer(pattern, text)], as positions of pieces.
Matches(text, pattern) == {i \in 1..Len(text) : text[i] = pattern}

\* Mutant of LastOf: the first match is taken.
FirstOf(matches) == CHOOSE i \in matches : \A j \in matches : i <= j

\* opening_matches[-1], closing_matches[-1]
LastOf(matches) == Max(matches)

\* text[from:to] of Python, on positions of pieces: empty when from >= to.
Slice(text, from, to) == IF from >= to THEN <<>> ELSE SubSeq(text, from + 1, to)

\* str.strip()
RECURSIVE LStrip(_)
LStrip(x) == IF x # <<>> /\ Head(x) \in WhiteSpace THEN LStrip(Tail(x)) ELSE x

RECURSIVE RStrip(_)
RStrip(x) ==
    IF x # <<>> /\ x[Len(x)] \in WhiteSpace THEN RStrip(SubSeq(x, 1, Len(x) - 1)) ELSE x

Strip(x) == RStrip(LStrip(x))

\* What parse_xml_content returns: None, or a string.
NotFound == [found |-> FALSE, content |-> <<>>]

Found(content) == [found |-> TRUE, content |-> content]

\* parse_xml_content(text, "T", include_tags)
ParseXmlContent(text, include_tags) ==
    LET opening_matches == Matches(text, "<T>")
        closing_matches == Matches(text, "</T>")
    IN IF opening_matches = {} THEN NotFound
       ELSE IF closing_matches = {} THEN NotFound
       ELSE LET last_opening == LastOf(opening_matches)
                last_closing == LastOf(closing_matches)
                \* last_opening.end() is the position after the opening
                \* tag, last_closing.start() the position of the closing tag
                content == Strip(Slice(text, last_opening, last_closing - 1))
            IN IF include_tags THEN Found(<<"<T>">> \o content \o <<"</T>">>)
               ELSE Found(content)

\* No call of parse_xml_content is on record.
NoXmlCall == [text |-> <<>>, include_tags |-> FALSE, returned |-> NotFound]

\* parse_xml_content(action, tag, include_tags=True) is None
NoTaggedContent(a) == ~a.tag

\* not voting_pattern.search(content)
NoTargetMatch(a) == a.refs = <<>>

\* int(match.group(1)): the pattern's leading .* is greedy, so the reference
\* captured is the last one of the line.
VotedPid(a) == a.refs[Len(a.refs)]

\* Mutant of InvalidMove: the debug observation without set_invalid_move.
InvalidMoveNotRecorded(s, pid, a) ==
    Emit(s, <<Msg(pid, DEBUG_ID, "debug", a.refs)>>)

\* An invalid move as every handler reports it: set_invalid_move, then one
\* observation to the debug sink.
InvalidMove(s, pid, a) ==
    Emit(SetInvalidMove(s), <<Msg(pid, DEBUG_ID, "debug", a.refs)>>)

(* ------------------------------------------------------------------ *)
(* Vote tally                                                           *)
(* ------------------------------------------------------------------ *)

\* votes[voter] = target on a dict that keeps insertion order
DictSet(d, k, v) ==
    IF \E i \in 1..Len(d) : d[i][1] = k
    THEN [i \in 1..Len(d) |-> IF d[i][1] = k THEN <<k, v>> ELSE d[i]]
    ELSE Append(d, <<k, v>>)

VoteCount(d, t) == Cardinality({i \in 1..Len(d) : d[i][2] = t})

\* Mutant of TopCandidate: a tie is broken in favour of one of the tied.
TopCandidateOfTie(top) == CHOOSE t \in top : TRUE

\* The candidate returned when the top candidates are not tied.
TopCandidate(top) == IF Cardinality(top) > 1 THEN None ELSE CHOOSE t \in top : TRUE

\* _evaluate_votes: the target with the most votes, None on a tie or no votes.
EvaluateVotes(d) ==
    LET targets == {d[i][2] : i \in 1..Len(d)}
    IN IF targets = {} THEN None
       ELSE LET max_votes == Max({VoteCount(d, t) : t \in targets})
                top_candidates == {t \in targets : VoteCount(d, t) = max_votes}
            IN TopCandidate(top_candidates)

\* Mutant of MostSuggested: one of the most suggested targets, tied or not.
MostSuggestedOfTie(ks) ==
    LET max_suggestions == Max({ks[t] : t \in DOMAIN ks})
    IN CHOOSE t \in DOMAIN ks : ks[t] = max_suggestions

\* The fallback of _night_mafia: the single most suggested target, if any.
MostSuggested(ks) ==
    LET max_suggestions == Max({ks[t] : t \in DOMAIN ks})
        top_candidates == {t \in DOMAIN ks : ks[t] = max_suggestions}
    IN IF Cardinality(top_candidates) = 1 THEN CHOOSE t \in top_candidates : TRUE
       ELSE None

\* Mutant of AddSuggestion: the count is set to one.
AddSuggestionOverwrites(ks, t) ==
    [x \in DOMAIN ks \cup {t} |-> IF x = t THEN 1 ELSE ks[x]]

\* kill_suggestions[target_pid] = kill_suggestions.get(target_pid, 0) + 1
AddSuggestion(ks, t) ==
    [x \in DOMAIN ks \cup {t} |-> IF x = t THEN (IF t \in DOMAIN ks THEN ks[t] ELSE 0) + 1
                                  ELSE ks[x]]

\* "- Player v voted for Player t" for every entry of votes, flattened.
RECURSIVE VoteSummary(_)
VoteSummary(d) ==
    IF d = <<>> THEN <<>> ELSE <<d[1][1], d[1][2]>> \o VoteSummary(Tail(d))

(* ------------------------------------------------------------------ *)
(* Role handlers                                                        *)
(* ------------------------------------------------------------------ *)

\* Mutant of DayPrivateReflection: the reflection is broadcast.
DayPrivateReflectionBroadcast(s, pid, a) ==
    IF NoTaggedContent(a) THEN InvalidMove(s, pid, a)
    ELSE Emit(s, <<Msg(pid, BROADCAST, "reflect", a.refs)>>)

\* _day_private_reflection
DayPrivateReflection(s, pid, a) ==
    IF NoTaggedContent(a) THEN InvalidMove(s, pid, a)
    ELSE Emit(s, <<Msg(pid, pid, "reflect", a.refs)>>)

\* _day_discussion
DayDiscussion(s, pid, a) ==
    IF NoTaggedContent(a) THEN InvalidMove(s, pid, a)
    ELSE Emit(s, <<Msg(pid, BROADCAST, "discussion", a.refs)>>)

\* Mutant of DayVoting: the votes so far are broadcast at every vote.
DayVotingInTheOpen(s, pid, a) ==
    IF NoTaggedContent(a) \/ NoTargetMatch(a) THEN InvalidMove(s, pid, a)
    ELSE LET s1 == [s EXCEPT !.votes = DictSet(@, pid, VotedPid(a))]
             s2 == Emit(s1, <<Msg(GAME_ID, BROADCAST, "vote_summary",
                                  VoteSummary(s1.votes))>>)
         IN IF s2.next_player_ids = <<>>
            THEN [s2 EXCEPT !.to_be_eliminated = EvaluateVotes(s2.votes)]
            ELSE s2

\* _day_voting
DayVoting(s, pid, a) ==
    IF NoTaggedContent(a) \/ NoTargetMatch(a) THEN InvalidMove(s, pid, a)
    ELSE LET s1 == [s EXCEPT !.votes = DictSet(@, pid, VotedPid(a))]
         IN IF s1.next_player_ids = <<>>
            THEN Emit([s1 EXCEPT !.to_be_eliminated = EvaluateVotes(s1.votes)],
                      <<Msg(GAME_ID, BROADCAST, "vote_summary", VoteSummary(s1.votes))>>)
            ELSE s1

\* Mutant of NightMafia: the tally runs at every vote.
NightMafiaTalliesEveryVote(s, pid, a) ==
    IF NoTaggedContent(a) \/ NoTargetMatch(a) THEN InvalidMove(s, pid, a)
    ELSE LET s1 == [s EXCEPT !.votes = DictSet(@, pid, VotedPid(a))]
             s2 == EmitTo(s1, pid, AliveMafiaPids(s1), "mafia_vote", a.refs)
             tally == EvaluateVotes(s2.votes)
         IN [s2 EXCEPT !.to_be_eliminated =
                           IF tally = None THEN MostSuggested(s2.kill_suggestions)
                           ELSE tally,
                       !.kill_suggestions = <<>>]

\* _night_mafia
NightMafia(s, pid, a) ==
    IF NoTaggedContent(a) \/ NoTargetMatch(a) THEN InvalidMove(s, pid, a)
    ELSE LET s1 == [s EXCEPT !.votes = DictSet(@, pid, VotedPid(a))]
             s2 == EmitTo(s1, pid, AliveMafiaPids(s1), "mafia_vote", a.refs)
         IN IF s2.next_player_ids = <<>>
            THEN LET tally == EvaluateVotes(s2.votes)
                 IN [s2 EXCEPT !.to_be_eliminated =
                                   IF tally = None THEN MostSuggested(s2.kill_suggestions)
                                   ELSE tally,
                               !.kill_suggestions = <<>>]
            ELSE s2

\* Mutant of NightDoctor: the protection is noted and saves nobody.
NightDoctorSavesNobody(s, pid, a) ==
    IF NoTaggedContent(a) \/ NoTargetMatch(a) THEN InvalidMove(s, pid, a)
    ELSE Emit(s, <<Msg(pid, pid, "protect", a.refs)>>)

\* _night_doctor
NightDoctor(s, pid, a) ==
    IF NoTaggedContent(a) \/ NoTargetMatch(a) THEN InvalidMove(s, pid, a)
    ELSE LET s1 == Emit(s, <<Msg(pid, pid, "protect", a.refs)>>)
         IN IF s1.to_be_eliminated # None /\ VotedPid(a) = s1.to_be_eliminated
            THEN [s1 EXCEPT !.to_be_eliminated = None]
            ELSE s1

\* Mutant of NightDetective: every player is told the result.
NightDetectiveTellsAll(s, pid, a) ==
    IF NoTaggedContent(a) \/ NoTargetMatch(a) THEN InvalidMove(s, pid, a)
    ELSE LET voted_pid == VotedPid(a)
             isMafia == voted_pid \in DOMAIN s.player_roles
                        /\ s.player_roles[voted_pid] = "Mafia"
             s1 == EmitTo(s, GAME_ID, Pids(s), "investigation_result",
                          <<voted_pid, IF isMafia THEN 1 ELSE 0>>)
         IN [s1 EXCEPT !.detective_inspected = Append(@, voted_pid)]

\* _night_detective
NightDetective(s, pid, a) ==
    IF NoTaggedContent(a) \/ NoTargetMatch(a) THEN InvalidMove(s, pid, a)
    ELSE LET voted_pid == VotedPid(a)
             isMafia == voted_pid \in DOMAIN s.player_roles
                        /\ s.player_roles[voted_pid] = "Mafia"
             s1 == Emit(s, <<Msg(GAME_ID, pid, "investigation_result",
                                 <<voted_pid, IF isMafia THEN 1 ELSE 0>>)>>)
             s2 == [s1 EXCEPT !.detective_inspected = Append(@, voted_pid)]
         IN EmitTo(s2, GAME_ID, NotDetectivePids(s2), "detective_notice", <<>>)

\* Mutant of NightMafiaDiscussion: the suggestion is broadcast.
NightMafiaDiscussionBroadcast(s, pid, a) ==
    IF NoTaggedContent(a) \/ NoTargetMatch(a) THEN InvalidMove(s, pid, a)
    ELSE LET s1 == Emit(s, <<Msg(pid, BROADCAST, "mafia_suggest", a.refs)>>)
         IN [s1 EXCEPT !.kill_suggestions = AddSuggestion(@, VotedPid(a))]

\* _night_mafia_discussion
NightMafiaDiscussion(s, pid, a) ==
    IF NoTaggedContent(a) \/ NoTargetMatch(a) THEN InvalidMove(s, pid, a)
    ELSE LET s1 == EmitTo(s, pid, AliveMafiaPids(s), "mafia_suggest", a.refs)
         IN [s1 EXCEPT !.kill_suggestions = AddSuggestion(@, VotedPid(a))]

\* The dispatch of step on game_state["phase"].
Handle(s, pid, a) ==
    CASE s.phase = "Night-Mafia-Discussion" -> NightMafiaDiscussion(s, pid, a)
      [] s.phase = "Day-Private-Reflection" -> DayPrivateReflection(s, pid, a)
      [] s.phase = "Day-Discussion" -> DayDiscussion(s, pid, a)
      [] s.phase = "Day-Voting" -> DayVoting(s, pid, a)
      [] s.phase = "Night-Mafia" -> NightMafia(s, pid, a)
      [] s.phase = "Night-Doctor" -> NightDoctor(s, pid, a)
      [] s.phase = "Night-Detective" -> NightDetective(s, pid, a)

(* ------------------------------------------------------------------ *)
(* HonchoAgent                                                          *)
(* ------------------------------------------------------------------ *)

\* What the base agent answers: its private thoughts and its actions.
Thoughts == {"thought1", "thought2"}

AgentActions == {"action1", "action2"}

\* Where a call fails: nowhere, in process_observation before the thought is
\* stored, in the base agent asked for the action, in process_action before
\* the message is written, or there after it.
FailurePoints ==
    {"none", "process_observation", "base_agent", "message_create", "metamessage_create"}

\* The exception raised by the failing call of the base agent or of Honcho.
OriginalError == "ConnectionError"

NoCall == [returned |-> "none", raised |-> "none"]

\* HonchoAgent.__init__: memory_strategy is None; the session holds no
\* message yet.
NewHonchoAgent ==
    [memory_strategy |-> FALSE, context |-> "none", messages |-> <<>>, last_call |-> NoCall]

\* HonchoAgent.start_game: a new strategy object, its _context empty.
StartGame(ag) == [ag EXCEPT !.memory_strategy = TRUE, !.context = "none"]

\* MemoryStrategy._store("private_thought", value)
Store(ag, value) == [ag EXCEPT !.context = value]

\* self.memory_strategy.cleanup(): neither MemoryStrategy nor
\* MafiaMemoryStrategy defines cleanup, so the attribute lookup raises and
\* the stored context stays as it is.
StrategyCleanup(ag) == [ag EXCEPT !.last_call = [returned |-> "none", raised |-> "AttributeError"]]

\* The except clause of __call__: cleanup, then "raise e".
OnError(ag) ==
    LET cleaned == StrategyCleanup(ag)
    IN IF cleaned.last_call.raised # "none" THEN cleaned
       ELSE [cleaned EXCEPT !.last_call = [returned |-> "none", raised |-> OriginalError]]

\* MafiaMemoryStrategy.process_action(action): the message is written, then
\* the stored thought as its metamessage; the base class's process_action,
\* which clears the context, is not called.
ProcessAction(ag, act, fail) ==
    IF fail = "message_create" THEN OnError(ag)
    ELSE LET written == [ag EXCEPT !.messages = Append(@, [content |-> act, thought |-> "none"])]
         IN IF ag.context = "none"
            THEN [written EXCEPT !.last_call = [returned |-> act, raised |-> "none"]]
            ELSE IF fail = "metamessage_create" THEN OnError(written)
            ELSE [written EXCEPT !.messages[Len(written.messages)].thought = ag.context,
                                 !.last_call = [returned |-> act, raised |-> "none"]]

\* HonchoAgent.__call__(observation): the base agent answers the private
\* prompt with thought and the augmented observation with act, unless the
\* call fails at fail.
Call(ag, thought, act, fail) ==
    IF ~ag.memory_strategy
    THEN [ag EXCEPT !.last_call = [returned |-> "none", raised |-> "RuntimeError"]]
    ELSE IF fail = "process_observation" THEN OnError(ag)
    ELSE LET stored == Store(ag, thought)
         IN IF fail = "base_agent" THEN OnError(stored)
            ELSE ProcessAction(stored, act, fail)

(* ------------------------------------------------------------------ *)
(* reset and step                                                       *)
(* ------------------------------------------------------------------ *)

\* state.reset(seed, game_state, player_prompt_function): the generator is
\* seeded and every player is sent the prompt of their role.
StateReset(s, sd) ==
    EmitTo([s EXCEPT !.rng = SeedRng(sd)], GAME_ID, Pids(s), "role_prompt", <<>>)

\* The generator's state when _assign_roles shuffles the role pool: reset
\* calls _assign_roles before state.reset seeds the generator.
RngAtAssignRoles(prior, sd) == prior

\* SecretMafiaEnv.reset(num_players, seed) on an engine built with
\* (mafia_ratio, discussion_rounds), the generator being in state prior.
Reset(ratio, n, sd, prior) ==
    LET assigned == AssignRoles(n, ratio, RngAtAssignRoles(prior, sd))
        s0 == [num_players |-> n,
               rng |-> assigned.rng,
               player_roles |-> assigned.roles,
               phase |-> "Night-Mafia-Discussion",
               alive_players |-> [i \in 1..n |-> i - 1],
               votes |-> <<>>,
               to_be_eliminated |-> None,
               kill_suggestions |-> <<>>,
               detective_inspected |-> <<>>,
               next_player_ids |-> <<>>,
               current_player_id |-> 0,
               done |-> FALSE,
               winners |-> {},
               obs |-> <<>>,
               trail |-> <<"Night-Mafia-Discussion">>,
               finalized |-> <<>>,
               cycle |-> 0,
               prevent_player_change |-> FALSE,
               add_observation_wrapped |-> FALSE,
               csv_log |-> <<>>]
        s1 == StateReset(s0, sd)
        s2 == PhaseTransitionPlayerPrompts(s1, "Night-Mafia-Discussion")
    IN TransitionCurrentPid(s2)

\* No player has taken a turn in the phase just entered.
NoTurns(n) == [p \in 0..(n - 1) |-> 0]

\* Player p has taken one more accepted turn in the current phase.
TurnTaken(f, p) == [f EXCEPT ![p] = @ + 1]

\* The engine's state as a record.  CSVLoggerWrapper.reset has replaced
\* state.add_observation after env.reset returned.
Cur ==
    [num_players |-> num_players,
     rng |-> rng,
     player_roles |-> player_roles,
     phase |-> phase,
     alive_players |-> alive_players,
     votes |-> votes,
     to_be_eliminated |-> to_be_eliminated,
     kill_suggestions |-> kill_suggestions,
     detective_inspected |-> detective_inspected,
     next_player_ids |-> next_player_ids,
     current_player_id |-> current_player_id,
     done |-> done,
     winners |-> winners,
     obs |-> <<>>,
     trail |-> <<>>,
     finalized |-> <<>>,
     cycle |-> cycle,
     prevent_player_change |-> FALSE,
     add_observation_wrapped |-> TRUE,
     csv_log |-> <<>>]

\* The record a call leaves behind becomes the engine's state: all of it but
\* the list of inspected players and the count of days.
InstallGame(s) ==
    /\ rng' = s.rng
    /\ phase' = s.phase
    /\ alive_players' = s.alive_players
    /\ votes' = s.votes
    /\ to_be_eliminated' = s.to_be_eliminated
    /\ kill_suggestions' = s.kill_suggestions
    /\ next_player_ids' = s.next_player_ids
    /\ current_player_id' = s.current_player_id
    /\ done' = s.done
    /\ winners' = s.winners
    /\ obs' = s.obs
    /\ trail' = s.trail
    /\ finalized' = s.finalized
    /\ csv_log' = s.csv_log

\* The record a call leaves behind becomes the engine's state.
Install(s) ==
    /\ InstallGame(s)
    /\ detective_inspected' = s.detective_inspected
    /\ cycle' = s.cycle

\* SecretMafiaEnv.step(action): the handler of the phase, then
\* _transition_current_pid, then state.step(rotate_player=False), which
\* clears prevent_player_change and returns done.
StepResult(a) ==
    LET handled == Handle(Cur, current_player_id, a)
    IN [after |-> TransitionCurrentPid(handled),
        invalid |-> handled.prevent_player_change]

\* An engine built with (ratio, rounds) has been reset with (n, sd), the
\* generator having been in state prior.
Constructed(ratio, rounds, n, sd, prior) ==
        LET s == Reset(ratio, n, sd, prior)
        IN /\ mafia_ratio = ratio
           /\ discussion_rounds = rounds
           /\ num_players = n
           /\ seed = sd
           /\ rng = s.rng
           /\ player_roles = s.player_roles
           /\ phase = s.phase
           /\ day_number = 1
           /\ alive_players = s.alive_players
           /\ votes = s.votes
           /\ to_be_eliminated = s.to_be_eliminated
           /\ kill_suggestions = s.kill_suggestions
           /\ detective_inspected = s.detective_inspected
           /\ next_player_ids = s.next_player_ids
           /\ current_player_id = s.current_player_id
           /\ done = s.done
           /\ winners = s.winners
           /\ obs = s.obs
           /\ action = NoAction
           /\ lastMove = "reset"
           /\ trail = s.trail
           /\ finalized = s.finalized
           /\ cycle = s.cycle
           /\ turns = NoTurns(n)
           /\ csv_log = s.csv_log
           /\ xml_call = NoXmlCall
           /\ honcho_agent = NewHonchoAgent

Init ==
    \E ratio \in MafiaRatios, rounds \in DiscussionRoundsChoices,
       n \in NumPlayersChoices, sd \in 0..MaxSeed, prior \in PriorRngStates :
        Constructed(ratio, rounds, n, sd, prior)

\* The driver loop calls step while the game is not done; the exploration
\* stops with the night that follows day MaxDay.
WithinDays == cycle < MaxDay \/ (cycle = MaxDay /\ phase \in NightPhases)

Playable == ~done /\ WithinDays

\* What a call of step(action) leaves besides the engine's state: how it
\* ended, and what step never writes.
StepNoted(a, r) ==
    /\ lastMove' = IF r.invalid THEN "invalid" ELSE "valid"
    /\ turns' = IF r.invalid THEN turns
                ELSE IF r.after.trail # <<>> THEN NoTurns(num_players)
                ELSE TurnTaken(turns, current_player_id)
    /\ action' = a
    /\ UNCHANGED <<mafia_ratio, discussion_rounds, num_players, seed, player_roles,
                   day_number, xml_call, honcho_agent>>

Stepped(a) ==
    LET r == StepResult(a)
    IN Install(r.after) /\ StepNoted(a, r)

\* step(action) called by the driver loop.
Step(a) == Playable /\ Stepped(a)

Next == \E a \in ActionInputs : Step(a)

Spec == Init /\ [][Next]_vars

\* step(action) called on a game that is already terminal: step has no test
\* of state.done and runs as on any other game.
StepAfterEnd(a) == done /\ WithinDays /\ Stepped(a)

NextAfterEnd == \E a \in ActionInputs : Step(a) \/ StepAfterEnd(a)

\* The games of a caller that goes on calling step after the end.
SpecAfterEnd == Init /\ [][NextAfterEnd]_vars

\* parse_xml_content(text, "T", include_tags) is called.
ParseXml(text, include_tags) ==
    /\ xml_call' = [text |-> text, include_tags |-> include_tags,
                    returned |-> ParseXmlContent(text, include_tags)]
    /\ UNCHANGED <<envVars, honcho_agent>>

XmlNext == \E text \in Texts, include_tags \in BOOLEAN : ParseXml(text, include_tags)

\* The calls are made beside one game, which they leave as reset made it.
XmlInit == Constructed(<<1, 4>>, DefaultDiscussionRounds, MinPlayers, 0, 23)

\* parse_xml_content called on every text.
SpecXml == XmlInit /\ [][XmlNext]_vars

\* agent.start_game()
AgentStartGame ==
    /\ honcho_agent' = StartGame(honcho_agent)
    /\ UNCHANGED <<envVars, xml_call>>

\* agent(observation)
AgentCall(thought, act, fail) ==
    /\ Len(honcho_agent.messages) < MaxMessages
    /\ honcho_agent' = Call(honcho_agent, thought, act, fail)
    /\ UNCHANGED <<envVars, xml_call>>

AgentNext ==
    \/ AgentStartGame
    \/ \E thought \in Thoughts, act \in AgentActions, fail \in FailurePoints :
           AgentCall(thought, act, fail)

\* A HonchoAgent started and called beside one game.
SpecAgent == XmlInit /\ [][AgentNext]_vars

\* Player ids the actions of the games of every size refer to.
SizesTargetIds == {0, 1}

\* Engines built with the default ratio and reset with every admitted number
\* of players.
SizesInit ==
    \E n \in ResetNumPlayers, sd \in 0..MaxSeed, prior \in PriorRngStates :
        Constructed(<<1, 4>>, DefaultDiscussionRounds, n, sd, prior)

SizesNext ==
    \E t \in SizesTargetIds :
        num_players <= MaxPlayedSize /\ Step([tag |-> TRUE, refs |-> <<t>>])

\* The games of 5 to 15 players at the default ratio.
SpecSizes == SizesInit /\ [][SizesNext]_vars

\* Player ids named in actions that hold two references.
SeveralRefIds == {0, 1, 2}

\* Actions whose tagged content names two different players on one line,
\* "[a] ... [b]", in that order.
SeveralRefsInputs ==
    {[tag |-> TRUE, refs |-> <<r[1], r[2]>>] :
         r \in {q \in SeveralRefIds \X SeveralRefIds : q[1] # q[2]}}

NextSeveralRefs == \E a \in SeveralRefsInputs : Step(a)

\* The games of players whose every action names two players.
SpecSeveralRefs == Init /\ [][NextSeveralRefs]_vars

\* Player ids the actions of an unending game refer to: three players, so
\* that the votes of five players can be tied.
ForeverTargetIds == {0, 1, 2}

\* The action names a target the prompt of the phase lists as valid: an alive
\* player who, for the Mafia, is not Mafia and, for the Doctor and the
\* Detective, is not the acting player.  The day's reflections and messages
\* need the tag only.
ListedAsValid(a) ==
    LET s == Cur
        t == VotedPid(a)
    IN /\ a.tag
       /\ a.refs # <<>>
       /\ CASE phase \in {"Night-Mafia-Discussion", "Night-Mafia"} ->
                   InList(t, AliveNotRole(s, "Mafia"))
            [] phase = "Night-Doctor" -> InList(t, AliveNotRole(s, "Doctor"))
            [] phase = "Night-Detective" -> InList(t, AliveNotRole(s, "Detective"))
            [] phase = "Day-Voting" -> IsAlive(s, t)
            [] OTHER -> t = 0

\* step(action) called by the driver loop with an action valid for the phase,
\* for as many days as the game lasts.  detective_inspected, which the code
\* appends to and never reads, and the count of days are left out of the
\* state, so that a game that repeats itself is a cycle of states.
StepForever(a) ==
    /\ ~done
    /\ ListedAsValid(a)
    /\ LET r == StepResult(a)
       IN InstallGame(r.after) /\ StepNoted(a, r)
    /\ UNCHANGED <<detective_inspected, cycle>>

ForeverInit ==
    \E ratio \in MafiaRatios, sd \in 0..MaxSeed, prior \in PriorRngStates :
        Constructed(ratio, DefaultDiscussionRounds, MinPlayers, sd, prior)

NextForever == \E t \in ForeverTargetIds : StepForever([tag |-> TRUE, refs |-> <<t>>])

\* The games of players who only submit valid actions, however long they last.
SpecForever == ForeverInit /\ [][NextForever]_vars

\* SecretMafiaEnv.reset(n, sd) called again on the same engine: a new game
\* replaces the old one, the generator being as the old game left it.
ResetAgain(n, sd) ==
    LET s == Reset(mafia_ratio, n, sd, rng)
    IN /\ Install(s)
       /\ player_roles' = s.player_roles
       /\ num_players' = n
       /\ seed' = sd
       /\ day_number' = 1
       /\ action' = NoAction
       /\ lastMove' = "reset"
       /\ turns' = NoTurns(n)
       /\ UNCHANGED <<mafia_ratio, discussion_rounds, xml_call, honcho_agent>>

ResetInit ==
    \E ratio \in ResetRatios, rounds \in DiscussionRoundsChoices,
       n \in ResetNumPlayers, sd \in 0..MaxSeed, prior \in PriorRngStates :
        Constructed(ratio, rounds, n, sd, prior)

ResetNext == \E n \in ResetNumPlayers, sd \in 0..MaxSeed : ResetAgain(n, sd)

\* The games reset produces, for every admitted number of players.
SpecReset == ResetInit /\ [][ResetNext]_vars

(* ------------------------------------------------------------------ *)
(* Vocabulary of the properties                                         *)
(* ------------------------------------------------------------------ *)

AliveSet == Range(alive_players)

MafiaSet == {p \in DOMAIN player_roles : player_roles[p] = "Mafia"}

NonMafiaSet == {p \in DOMAIN player_roles : player_roles[p] # "Mafia"}

DoctorPid == CHOOSE p \in DOMAIN player_roles : player_roles[p] = "Doctor"

DetectivePid == CHOOSE p \in DOMAIN player_roles : player_roles[p] = "Detective"

\* The action lacks the phase's tag pair, or the phase needs a target and the
\* tagged content refers to no player.
Malformed(a, ph) == ~a.tag \/ (ph \in TargetPhases /\ a.refs = <<>>)

\* The action is well formed for a phase that needs a target.
WellFormedTarget(a) == a.tag /\ a.refs # <<>>

PromptKinds ==
    {"mafia_discussion_prompt", "mafia_vote_prompt", "doctor_prompt",
     "detective_prompt", "reflection_prompt", "discussion_prompt", "voting_prompt"}

\* The game state an invalid move must leave alone.
GameVars ==
    <<current_player_id, next_player_ids, phase, alive_players, votes,
      kill_suggestions, to_be_eliminated, detective_inspected, done, winners, rng>>

(* ------------------------------------------------------------------ *)
(* C1                                                                   *)
(* ------------------------------------------------------------------ *)

\* C1: in every phase, a step whose action lacks the phase's tag pair, or (in
\* a phase that needs a target) holds no player reference inside the tag, is
\* an invalid move: the current player, the turn queue, the phase, the alive
\* players, votes, kill_suggestions, to_be_eliminated and detective_inspected
\* are unchanged, every observation of the step goes to the debug sink, and
\* the same player is the one to act next.
C1_MalformedActionIsInvalidMove ==
    [][Malformed(action', phase) =>
          /\ lastMove' = "invalid"
          /\ UNCHANGED GameVars
          /\ obs' # <<>>
          /\ \A i \in 1..Len(obs') : obs'[i].to = DEBUG_ID
          /\ trail' = <<>>]_vars

\* A tagged Day-Voting action without a player reference was turned down.
C1_Witness ==
    /\ lastMove = "invalid"
    /\ phase = "Day-Voting"
    /\ action.tag
    /\ action.refs = <<>>
    /\ votes # <<>>

(* ------------------------------------------------------------------ *)
(* C2                                                                   *)
(* ------------------------------------------------------------------ *)

\* The phase that follows "from" when the alive players are "alive".
Successor(from, alive) ==
    CASE from = "Night-Mafia-Discussion" -> "Night-Mafia"
      [] from = "Night-Mafia" ->
             IF DoctorPid \in alive THEN "Night-Doctor"
             ELSE IF DetectivePid \in alive THEN "Night-Detective"
             ELSE "Day-Private-Reflection"
      [] from = "Night-Doctor" ->
             IF DetectivePid \in alive THEN "Night-Detective"
             ELSE "Day-Private-Reflection"
      [] from = "Night-Detective" -> "Day-Private-Reflection"
      [] from = "Day-Private-Reflection" -> "Day-Discussion"
      [] from = "Day-Discussion" -> "Day-Voting"
      [] from = "Day-Voting" -> "Night-Mafia-Discussion"

\* C2: the phase is Night-Mafia-Discussion after reset, and every phase
\* entered later is the successor of the phase before it: Night-Mafia-Discussion
\* -> Night-Mafia; Night-Mafia -> Night-Doctor if the Doctor is alive, else
\* Night-Detective if the Detective is alive, else Day-Private-Reflection;
\* Night-Doctor -> Night-Detective if the Detective is alive, else
\* Day-Private-Reflection; Night-Detective -> Day-Private-Reflection ->
\* Day-Discussion -> Day-Voting -> Night-Mafia-Discussion.  A dead Doctor
\* (Detective) gets no Night-Doctor (Night-Detective) phase, prompt or turn, and
\* no investigation result is emitted while the Detective is dead.
C2_PhaseRelation ==
    /\ phase = "Night-Mafia-Discussion"
    /\ [][LET chain == <<phase>> \o trail'
              \* A day's elimination precedes the guards of the night it opens;
              \* a night's elimination follows the guards of that night.
              guardAlive == IF phase = "Day-Voting" THEN Range(alive_players')
                            ELSE AliveSet
          IN /\ phase' = chain[Len(chain)]
             /\ \A i \in 1..(Len(chain) - 1) :
                    chain[i+1] = Successor(chain[i], guardAlive)
             /\ \A i \in 1..Len(trail') :
                    /\ trail'[i] = "Night-Doctor" => DoctorPid \in Range(alive_players')
                    /\ trail'[i] = "Night-Detective" =>
                           DetectivePid \in Range(alive_players')
             /\ phase' = "Night-Doctor" =>
                    current_player_id' = DoctorPid /\ DoctorPid \in Range(alive_players')
             /\ phase' = "Night-Detective" =>
                    current_player_id' = DetectivePid
                    /\ DetectivePid \in Range(alive_players')
             /\ \A i \in 1..Len(obs') :
                    /\ obs'[i].kind = "doctor_prompt" =>
                           obs'[i].to = DoctorPid /\ DoctorPid \in Range(alive_players')
                    /\ obs'[i].kind = "detective_prompt" =>
                           obs'[i].to = DetectivePid
                           /\ DetectivePid \in Range(alive_players')
                    /\ obs'[i].kind = "investigation_result" =>
                           obs'[i].to = DetectivePid /\ DetectivePid \in AliveSet]_vars

\* The Doctor is dead and the night went from Night-Mafia straight to
\* Night-Detective.
C2_Witness ==
    /\ DoctorPid \notin AliveSet
    /\ phase = "Night-Detective"
    /\ trail = <<"Night-Detective">>
    /\ cycle >= 1

(* ------------------------------------------------------------------ *)
(* C3                                                                   *)
(* ------------------------------------------------------------------ *)

\* C3: whenever a night or day finalization leaves no alive Mafia, the game
\* is terminal at the end of that step and the winners are exactly the
\* players whose role is not Mafia, dead or alive.
C3_VillageWins ==
    \A i \in 1..Len(finalized) :
        finalized[i].mafia = 0 => done /\ winners = NonMafiaSet

\* A day vote removed the last Mafia and a dead player is among the winners.
C3_Witness ==
    /\ finalized # <<>>
    /\ finalized[1].kind = "day"
    /\ finalized[1].mafia = 0
    /\ finalized[1].tbe \in MafiaSet
    /\ \E w \in winners : w \notin AliveSet

(* ------------------------------------------------------------------ *)
(* C4                                                                   *)
(* ------------------------------------------------------------------ *)

C5_TerminalIsQuiescent ==
    [][done' =>
          /\ next_player_ids' = <<>>
          /\ trail' = <<>>
          /\ phase' = phase
          /\ current_player_id' = current_player_id
          /\ \A i \in 1..Len(obs') : obs'[i].kind \notin PromptKinds]_vars

(* ------------------------------------------------------------------ *)
(* C6                                                                   *)
(* ------------------------------------------------------------------ *)

\* The players still to act in the current phase: the dispatched player, whose
\* turn is open, and the players queued behind in next_player_ids.
TurnQueue == <<current_player_id>> \o next_player_ids

C7_RolesIndependentOfPriorRng ==
    \A prior \in PriorRngStates :
        Reset(mafia_ratio, num_players, seed, prior).player_roles = player_roles

(* ------------------------------------------------------------------ *)
(* C8                                                                   *)
(* ------------------------------------------------------------------ *)

\* C8: in Day-Voting a well-formed vote whose target is dead or outside
\* [0, N) is an invalid move: votes is unchanged and the voter keeps the turn.
C8_DayVoteForNonAliveIsInvalid ==
    [][(phase = "Day-Voting" /\ WellFormedTarget(action')
           /\ VotedPid(action') \notin AliveSet) =>
          /\ lastMove' = "invalid"
          /\ votes' = votes
          /\ to_be_eliminated' = to_be_eliminated
          /\ current_player_id' = current_player_id]_vars

(* ------------------------------------------------------------------ *)
(* C9                                                                   *)
(* ------------------------------------------------------------------ *)

\* C9: in Night-Mafia a well-formed vote whose target is a Mafia member, a
\* dead player or an id outside [0, N) is an invalid move: votes is unchanged,
\* nothing is shown to the Mafia, and to_be_eliminated never names a Mafia
\* member.
C9_MafiaVoteForNonTargetIsInvalid ==
    [][(phase = "Night-Mafia" /\ WellFormedTarget(action')
           /\ VotedPid(action') \notin (AliveSet \ MafiaSet)) =>
          /\ lastMove' = "invalid"
          /\ votes' = votes
          /\ \A i \in 1..Len(obs') : obs'[i].to = DEBUG_ID
          /\ to_be_eliminated' \notin MafiaSet]_vars

(* ------------------------------------------------------------------ *)
(* C10                                                                  *)
(* ------------------------------------------------------------------ *)

\* C10: in Night-Mafia-Discussion a well-formed suggestion whose target is
\* not an alive non-Mafia player is an invalid move: kill_suggestions is
\* unchanged, nothing is emitted to the Mafia and the suggesting player keeps
\* the turn.
C10_SuggestionForNonTargetIsInvalid ==
    [][(phase = "Night-Mafia-Discussion" /\ WellFormedTarget(action')
           /\ VotedPid(action') \notin (AliveSet \ MafiaSet)) =>
          /\ lastMove' = "invalid"
          /\ kill_suggestions' = kill_suggestions
          /\ \A i \in 1..Len(obs') : obs'[i].to = DEBUG_ID
          /\ current_player_id' = current_player_id
          /\ next_player_ids' = next_player_ids]_vars

(* ------------------------------------------------------------------ *)
(* C11                                                                  *)
(* ------------------------------------------------------------------ *)

\* C11: in Night-Doctor a well-formed protect action whose target is the
\* Doctor themself, a dead player or an id outside [0, N) is an invalid move:
\* to_be_eliminated is unchanged (a Doctor targeted by the Mafia cannot save
\* themself) and the Doctor keeps the turn.
C11_ProtectNonTargetIsInvalid ==
    [][(phase = "Night-Doctor" /\ WellFormedTarget(action')
           /\ VotedPid(action') \notin (AliveSet \ {DoctorPid})) =>
          /\ lastMove' = "invalid"
          /\ to_be_eliminated' = to_be_eliminated
          /\ phase' = phase
          /\ current_player_id' = current_player_id]_vars

(* ------------------------------------------------------------------ *)
(* C12                                                                  *)
(* ------------------------------------------------------------------ *)

\* C12: in Night-Detective a well-formed investigate action whose target is
\* the Detective themself, a dead player or an id outside [0, N) is an invalid
\* move: no investigation result is emitted, detective_inspected is unchanged
\* and the Detective keeps the turn.
C12_InvestigateNonTargetIsInvalid ==
    [][(phase = "Night-Detective" /\ WellFormedTarget(action')
           /\ VotedPid(action') \notin (AliveSet \ {DetectivePid})) =>
          /\ lastMove' = "invalid"
          /\ \A i \in 1..Len(obs') : obs'[i].kind # "investigation_result"
          /\ detective_inspected' = detective_inspected
          /\ phase' = phase
          /\ current_player_id' = current_player_id]_vars

(* ------------------------------------------------------------------ *)
(* C13                                                                  *)
(* ------------------------------------------------------------------ *)

\* The votes in force once the current player has voted for target t: one
\* vote per voter, the current player's being t.
VotesWith(t) ==
    [v \in {votes[i][1] : i \in 1..Len(votes)} \cup {current_player_id} |->
        IF v = current_player_id THEN t
        ELSE votes[CHOOSE i \in 1..Len(votes) : votes[i][1] = v][2]]

\* The targets of the votes f that no other target equals or exceeds.
StrictPlurality(f) ==
    LET N(t) == Cardinality({v \in DOMAIN f : f[v] = t})
    IN {t \in Range(f) : \A u \in Range(f) \ {t} : N(u) < N(t)}

\* The eliminations announced in the observations o, by kind.
Announced(o, kind) == SelectSeq(o, LAMBDA m : m.kind = kind)

\* C13: when the last vote of Day-Voting is accepted, the player eliminated is
\* exactly the target with the unique maximum number of votes: that target is
\* announced and leaves the alive players, nobody else does.  If two or more
\* targets share the maximum nobody is eliminated: the alive players are
\* unchanged, "no player eliminated" is announced and the game continues,
\* not terminal, into Night-Mafia-Discussion.
C13_DayVoteStrictPlurality ==
    [][(phase = "Day-Voting" /\ next_player_ids = <<>> /\ lastMove' = "valid") =>
          LET top == StrictPlurality(VotesWith(VotedPid(action')))
              told == Announced(obs', "day_elimination")
          IN /\ Len(told) = 1
             /\ Len(finalized') = 1
             /\ finalized'[1].kind = "day"
             /\ IF top = {}
                THEN /\ alive_players' = alive_players
                     /\ told[1].arg = <<>>
                     /\ finalized'[1].tbe = None
                     /\ ~done'
                     /\ phase' = "Night-Mafia-Discussion"
                ELSE \E t \in top :
                     /\ top = {t}
                     /\ Range(alive_players') = AliveSet \ {t}
                     /\ told[1].arg = <<t>>
                     /\ finalized'[1].tbe = t]_vars

\* A day vote ended in a tie between two targets: nobody was eliminated and
\* the next night has begun.
C13_Witness ==
    /\ finalized # <<>>
    /\ finalized[1].kind = "day"
    /\ finalized[1].tbe = None
    /\ phase = "Night-Mafia-Discussion"
    /\ ~done
    /\ Len(alive_players) = 4
    /\ \E i \in 1..Len(obs) :
           /\ obs[i].kind = "vote_summary"
           /\ Len(obs[i].arg) = 8
    /\ Announced(obs, "day_elimination")[1].arg = <<>>

(* ------------------------------------------------------------------ *)
(* C14                                                                  *)
(* ------------------------------------------------------------------ *)

\* The targets of kill_suggestions suggested more often than every other.
MostSuggestedStrictly ==
    {t \in DOMAIN kill_suggestions :
        \A u \in DOMAIN kill_suggestions \ {t} : kill_suggestions[u] < kill_suggestions[t]}

\* The victim the Mafia settled on in the last step: to_be_eliminated, or the
\* player whose elimination was processed when the night ended in that step.
NightVictim(tbe, fin) == IF fin # <<>> THEN fin[1].tbe ELSE tbe

C15_DoctorSaves ==
    [][/\ (phase = "Night-Doctor" /\ lastMove' = "valid") =>
              LET saved == /\ to_be_eliminated # None
                           /\ VotedPid(action') = to_be_eliminated
              IN /\ NightVictim(to_be_eliminated', finalized') =
                        IF saved THEN None ELSE to_be_eliminated
                 /\ saved => alive_players' = alive_players
       /\ (phase = "Night-Detective" /\ lastMove' = "valid") =>
              /\ Len(finalized') = 1
              /\ finalized'[1].tbe = to_be_eliminated
       /\ (phase \in NightPhases /\ finalized' # <<>>) =>
              /\ finalized'[1].kind = "night"
              /\ finalized'[1].tbe = None =>
                     /\ alive_players' = alive_players
                     /\ Announced(obs', "night_elimination") =
                            <<Msg(GAME_ID, BROADCAST, "night_elimination", <<>>)>>]_vars

\* The Doctor named the player every Mafia voted for: nobody is to be
\* eliminated when the Detective's turn opens.
C15_Witness ==
    /\ phase = "Night-Detective"
    /\ trail = <<"Night-Detective">>
    /\ lastMove = "valid"
    /\ votes # <<>>
    /\ \A i \in 1..Len(votes) : votes[i][2] = VotedPid(action)
    /\ VotedPid(action) \in AliveSet \ {DoctorPid}
    /\ to_be_eliminated = None

(* ------------------------------------------------------------------ *)
(* C16                                                                  *)
(* ------------------------------------------------------------------ *)

\* A win condition holds for the alive players "alive".
WinConditionHolds(alive) ==
    LET m == Cardinality(alive \cap MafiaSet)
    IN m = 0 \/ 2 * m >= Cardinality(alive)

\* C16: on every transition from a night phase into Day-Private-Reflection,
\* and only there: if to_be_eliminated names a player, that player is removed
\* from the alive players and exactly one night-elimination broadcast names
\* them, otherwise exactly one "no player eliminated" broadcast is emitted;
\* then votes and to_be_eliminated are cleared and the win conditions are
\* evaluated, all before any Day-Private-Reflection prompt or turn: the
\* broadcast precedes the reflection prompts, and the prompts and the turn go
\* to players alive after the removal.
C16_NightFinalization ==
    [][LET told == Announced(obs', "night_elimination")
           nightEnds == phase \in NightPhases /\ InList("Day-Private-Reflection", trail')
       IN /\ (told # <<>> \/ (finalized' # <<>> /\ finalized'[1].kind = "night"))
                 => nightEnds
          /\ nightEnds =>
                LET tbe == finalized'[1].tbe
                IN /\ Len(finalized') = 1
                   /\ finalized'[1].kind = "night"
                   /\ phase = "Night-Detective" => tbe = to_be_eliminated
                   /\ Len(told) = 1
                   /\ told[1].to = BROADCAST
                   /\ told[1].arg = IF tbe = None THEN <<>> ELSE <<tbe>>
                   /\ Range(alive_players') = AliveSet \ {tbe}
                   /\ Len(alive_players') = Cardinality(Range(alive_players'))
                   /\ votes' = <<>>
                   /\ to_be_eliminated' = None
                   /\ done' = WinConditionHolds(Range(alive_players'))
                   /\ phase' = "Day-Private-Reflection"
                   /\ \A i, j \in 1..Len(obs') :
                          (obs'[i].kind = "night_elimination"
                              /\ obs'[j].kind = "reflection_prompt") => i < j
                   /\ {obs'[j].to : j \in {k \in 1..Len(obs') :
                                              obs'[k].kind = "reflection_prompt"}}
                          = Range(alive_players')
                   /\ current_player_id' \in Range(alive_players')
                   /\ Range(next_player_ids') \subseteq Range(alive_players')]_vars

\* A night ended with the elimination of an alive player, and the game goes
\* on with the reflections of the others.
C16_Witness ==
    /\ finalized # <<>>
    /\ finalized[1].kind = "night"
    /\ finalized[1].tbe \in DOMAIN player_roles
    /\ finalized[1].tbe \notin AliveSet
    /\ Len(alive_players) = 4
    /\ phase = "Day-Private-Reflection"
    /\ ~done
    /\ Announced(obs, "night_elimination")[1].arg = <<finalized[1].tbe>>

(* ------------------------------------------------------------------ *)
(* C17                                                                  *)
(* ------------------------------------------------------------------ *)

\* C17: the alive players never gain a member: across every step the alive
\* players after it are among the alive players before it, and the role
\* assignment made at reset is never changed by a step.
C17_AliveShrinksRolesFixed ==
    [][/\ Range(alive_players') \subseteq AliveSet
       /\ player_roles' = player_roles]_vars

\* Two players have been eliminated, one at night and one by the day vote.
C17_Witness ==
    /\ Len(alive_players) = 3
    /\ cycle = 1
    /\ finalized # <<>>
    /\ finalized[1].kind = "day"
    /\ finalized[1].tbe \in DOMAIN player_roles
    /\ finalized[1].tbe \notin AliveSet

(* ------------------------------------------------------------------ *)
(* C18                                                                  *)
(* ------------------------------------------------------------------ *)

\* The players who may hold a turn in phase ph.
TurnHolders(ph) ==
    CASE ph \in {"Night-Mafia-Discussion", "Night-Mafia"} -> AliveSet \cap MafiaSet
      [] ph = "Night-Doctor" -> AliveSet \cap {DoctorPid}
      [] ph = "Night-Detective" -> AliveSet \cap {DetectivePid}
      [] OTHER -> AliveSet

\* C18: after reset and after every step of a non-terminal game, the current
\* player and every player still in the turn queue are alive and match the
\* phase: alive Mafia in Night-Mafia-Discussion and Night-Mafia, the alive
\* Doctor in Night-Doctor, the alive Detective in Night-Detective, any alive
\* player in the day phases.
C18_TurnsGoToAlivePlayersOfThePhase ==
    ~done => Range(TurnQueue) \subseteq TurnHolders(phase)

\* The second night opens with a Mafia member dead: the alive one holds the
\* turn and is queued again.
C18_Witness ==
    /\ ~done
    /\ cycle = 1
    /\ phase = "Night-Mafia-Discussion"
    /\ MafiaSet \ AliveSet # {}
    /\ next_player_ids # <<>>
    /\ current_player_id \in MafiaSet \cap AliveSet

(* ------------------------------------------------------------------ *)
(* C19                                                                  *)
(* ------------------------------------------------------------------ *)

\* The accepted turns player p is to take in phase ph, other than
\* Day-Discussion, when the alive players are "alive".
PhaseTurns(ph, alive, p) ==
    CASE ph = "Night-Mafia-Discussion" -> IF p \in alive \cap MafiaSet THEN 2 ELSE 0
      [] ph = "Night-Mafia" -> IF p \in alive \cap MafiaSet THEN 1 ELSE 0
      [] ph = "Night-Doctor" -> IF p = DoctorPid THEN 1 ELSE 0
      [] ph = "Night-Detective" -> IF p = DetectivePid THEN 1 ELSE 0
      [] ph \in {"Day-Private-Reflection", "Day-Voting"} -> IF p \in alive THEN 1 ELSE 0

\* The accepted turns of player p in the current phase, the turn the current
\* player is taking included.
TurnsWithThisOne(p) == turns[p] + IF p = current_player_id THEN 1 ELSE 0

RECURSIVE SumOver(_, _)
SumOver(f, S) ==
    IF S = {} THEN 0
    ELSE LET x == CHOOSE y \in S : TRUE IN f[x] + SumOver(f, S \ {x})

\* C19: between entering a phase and leaving it, the accepted turns taken are
\* exactly: two per alive Mafia in Night-Mafia-Discussion, one per alive Mafia
\* in Night-Mafia, one by the Doctor in Night-Doctor, one by the Detective in
\* Night-Detective, one per alive player in Day-Private-Reflection and one per
\* alive player in Day-Voting; no other player takes a turn in that phase.
C19_TurnsPerPhase ==
    [][/\ (lastMove' = "valid" /\ trail' # <<>> /\ phase # "Day-Discussion") =>
              \A p \in DOMAIN player_roles :
                  TurnsWithThisOne(p) = PhaseTurns(phase, AliveSet, p)
       /\ (lastMove' = "valid" /\ trail' = <<>> /\ phase # "Day-Discussion") =>
              /\ phase' = phase
              /\ \A p \in DOMAIN player_roles :
                     /\ turns'[p] = TurnsWithThisOne(p)
                     /\ turns'[p] <= PhaseTurns(phase, AliveSet, p)
              /\ \E p \in DOMAIN player_roles :
                     turns'[p] < PhaseTurns(phase, AliveSet, p)]_vars

\* Two Mafia have made their four suggestions, two each, and the Mafia vote
\* has opened.
C19_Witness ==
    /\ phase = "Night-Mafia"
    /\ trail = <<"Night-Mafia">>
    /\ lastMove = "valid"
    /\ Cardinality(MafiaSet \cap AliveSet) = 2
    /\ SumOver(kill_suggestions, DOMAIN kill_suggestions) = 4
    /\ \A p \in DOMAIN player_roles : turns[p] = 0

(* ------------------------------------------------------------------ *)
(* C20                                                                  *)
(* ------------------------------------------------------------------ *)

\* C20: in each Day-Discussion phase every alive player takes exactly
\* discussion_rounds accepted turns, discussion_rounds being the value given
\* to the constructor (default 3), and nobody else takes a turn; an engine
\* built with discussion_rounds = 1 gives each alive player exactly one
\* discussion turn per day.
C20_DiscussionTurnsAreConstructorRounds ==
    [][(phase = "Day-Discussion" /\ lastMove' = "valid" /\ trail' # <<>>) =>
          \A p \in DOMAIN player_roles :
              TurnsWithThisOne(p) = IF p \in AliveSet THEN discussion_rounds ELSE 0]_vars

(* ------------------------------------------------------------------ *)
(* C21                                                                  *)
(* ------------------------------------------------------------------ *)

\* The observations of o that the phase controller did not emit: those a role
\* handler emitted on behalf of the acting player.
FromHandler(o) == SelectSeq(o, LAMBDA m : m.from # GAME_ID)

\* C21: the content of a player's accepted Day-Private-Reflection action is
\* emitted in exactly one observation, whose recipient is that same player; it
\* is never broadcast and never addressed to another player: whatever else the
\* step emits comes from the game and is the prompt of Day-Discussion.
C21_ReflectionIsPrivate ==
    [][(phase = "Day-Private-Reflection" /\ lastMove' = "valid") =>
          /\ FromHandler(obs') =
                 <<Msg(current_player_id, current_player_id, "reflect", action'.refs)>>
          /\ \A i \in 1..Len(obs') :
                 obs'[i].from = GAME_ID => obs'[i].kind = "discussion_prompt"]_vars

\* A reflection was accepted in the middle of Day-Private-Reflection.
C21_Witness ==
    /\ phase = "Day-Private-Reflection"
    /\ lastMove = "valid"
    /\ trail = <<>>
    /\ Len(obs) = 1
    /\ obs[1].kind = "reflect"
    /\ obs[1].to = obs[1].from
    /\ obs[1].to \in AliveSet

(* ------------------------------------------------------------------ *)
(* C22                                                                  *)
(* ------------------------------------------------------------------ *)

\* C22: every accepted Mafia suggestion and Mafia vote is emitted to exactly
\* the alive Mafia, its author included, once each, and to nobody else; in
\* Night-Mafia-Discussion and Night-Mafia no handler emits an observation
\* addressed to a non-Mafia player or to the broadcast sentinel.
C22_MafiaTalkStaysAmongAliveMafia ==
    [][(phase \in {"Night-Mafia-Discussion", "Night-Mafia"}) =>
          LET said == FromHandler(obs')
              aliveMafia == AliveSet \cap MafiaSet
          IN /\ \A i \in 1..Len(said) :
                    /\ said[i].from = current_player_id
                    /\ said[i].to \in aliveMafia \cup {DEBUG_ID}
             /\ lastMove' = "valid" =>
                    /\ current_player_id \in aliveMafia
                    /\ Len(said) = Cardinality(aliveMafia)
                    /\ {said[i].to : i \in 1..Len(said)} = aliveMafia
                    /\ \A i \in 1..Len(said) :
                           /\ said[i].kind = IF phase = "Night-Mafia" THEN "mafia_vote"
                                             ELSE "mafia_suggest"
                           /\ said[i].arg = action'.refs]_vars

\* With one of the two Mafia dead, the other's suggestion went to that one
\* alive Mafia alone.
C22_Witness ==
    /\ phase = "Night-Mafia-Discussion"
    /\ lastMove = "valid"
    /\ trail = <<>>
    /\ Cardinality(MafiaSet) = 2
    /\ Cardinality(MafiaSet \cap AliveSet) = 1
    /\ Len(obs) = 1
    /\ obs[1].kind = "mafia_suggest"
    /\ obs[1].to \in MafiaSet \cap AliveSet

(* ------------------------------------------------------------------ *)
(* C23                                                                  *)
(* ------------------------------------------------------------------ *)

\* C23: every observation emitted to the players is addressed to a single
\* player who is alive when it is emitted, to the player who originated it, or
\* to the broadcast sentinel; none is addressed individually to a player who
\* has already been eliminated.  (The players alive before the step include
\* every player alive at any moment of it.)
C23_ObservationsGoToAlivePlayers ==
    [][\A i \in 1..Len(obs') :
           \/ obs'[i].to = DEBUG_ID
           \/ obs'[i].to = BROADCAST
           \/ obs'[i].to = obs'[i].from
           \/ obs'[i].to \in AliveSet]_vars

(* ------------------------------------------------------------------ *)
(* C24                                                                  *)
(* ------------------------------------------------------------------ *)

\* C24: for an accepted investigation of player X the result is addressed to
\* the Detective only and says X is part of the Mafia exactly when X's role is
\* Mafia; every other player receives only the notice, once, and the notice
\* depends neither on X nor on X's role.
C24_InvestigationResultIsPrivate ==
    [][(phase = "Night-Detective" /\ lastMove' = "valid") =>
          LET X == VotedPid(action')
              result == Announced(obs', "investigation_result")
              notice == Announced(obs', "detective_notice")
              others == DOMAIN player_roles \ {DetectivePid}
          IN /\ current_player_id = DetectivePid
             /\ result = <<Msg(GAME_ID, DetectivePid, "investigation_result",
                               <<X, IF X \in MafiaSet THEN 1 ELSE 0>>)>>
             /\ Len(notice) = Cardinality(others)
             /\ {notice[i].to : i \in 1..Len(notice)} = others
             /\ \A i \in 1..Len(notice) : notice[i].arg = <<>> /\ notice[i].from = GAME_ID
             /\ \A i \in 1..Len(obs') :
                    obs'[i].kind \in {"investigation_result", "detective_notice",
                                      "night_elimination", "reflection_prompt"}]_vars

\* The Detective investigated a Mafia member and was told so.
C24_Witness ==
    /\ lastMove = "valid"
    /\ \E i \in 1..Len(obs) :
           /\ obs[i].kind = "investigation_result"
           /\ obs[i].to = DetectivePid
           /\ obs[i].arg[1] \in MafiaSet
           /\ obs[i].arg[2] = 1
    /\ \E i \in 1..Len(obs) :
           /\ obs[i].kind = "detective_notice"
           /\ obs[i].to \in MafiaSet

(* ------------------------------------------------------------------ *)
(* C25                                                                  *)
(* ------------------------------------------------------------------ *)

\* C25: during Day-Voting no observation reveals a vote until the last queued
\* voter submits a valid vote: until then a step emits nothing to the players.
\* That last step broadcasts exactly one summary, which lists every recorded
\* voter/target pair of the day, and the summary precedes the broadcast of
\* the elimination's outcome.
C25_VotesRevealedOnlyInSummary ==
    [][(phase = "Day-Voting") =>
          LET summary == Announced(obs', "vote_summary")
              final == VotesWith(VotedPid(action'))
          IN IF next_player_ids = <<>> /\ lastMove' = "valid"
             THEN /\ Len(summary) = 1
                  /\ summary[1].to = BROADCAST
                  /\ summary[1].from = GAME_ID
                  /\ Len(summary[1].arg) = 2 * Cardinality(DOMAIN final)
                  /\ \A v \in DOMAIN final :
                         \E k \in 1..Cardinality(DOMAIN final) :
                             /\ summary[1].arg[2 * k - 1] = v
                             /\ summary[1].arg[2 * k] = final[v]
                  /\ DOMAIN final = AliveSet
                  /\ obs'[1].kind = "vote_summary"
                  /\ obs'[2].kind = "day_elimination"
             ELSE \A i \in 1..Len(obs') : obs'[i].to = DEBUG_ID]_vars

\* The last vote of the day was cast and the summary lists five votes.
C25_Witness ==
    /\ lastMove = "valid"
    /\ Len(obs) >= 2
    /\ obs[1].kind = "vote_summary"
    /\ Len(obs[1].arg) = 10
    /\ obs[2].kind = "day_elimination"
    /\ phase = "Night-Mafia-Discussion"

(* ------------------------------------------------------------------ *)
(* C26                                                                  *)
(* ------------------------------------------------------------------ *)

\* The players holding role r.
Holders(r) == {p \in DOMAIN player_roles : player_roles[p] = r}

\* C26: reset refuses to start a game whose role pool cannot be filled, so
\* every started game has N - numMafia >= 2 for numMafia = max(1, round(N *
\* mafia_ratio)), and exactly one Doctor and exactly one Detective among the
\* players 0..N-1.
C26_StartedGamesHaveDoctorAndDetective ==
    /\ num_players - NumMafia(num_players, mafia_ratio) >= 2
    /\ Cardinality(Holders("Doctor")) = 1
    /\ Cardinality(Holders("Detective")) = 1

(* ------------------------------------------------------------------ *)
(* C27                                                                  *)
(* ------------------------------------------------------------------ *)

\* round(n / 4) as Python rounds: the nearest integer, a half going to the
\* even neighbour.
NearestToQuarter(n) ==
    CHOOSE m \in 0..n :
        \/ 4 * m - n \in {-1, 0, 1}
        \/ (4 * m - n \in {-2, 2} /\ m % 2 = 0)

\* C27: for every N with 5 <= N <= 15 and mafia_ratio = 0.25 the roles
\* assigned at reset are exactly numMafia = max(1, round(N * 0.25)) Mafia, one
\* Doctor, one Detective and N - numMafia - 2 >= 1 Villagers, each player
\* 0..N-1 holding exactly one role; N = 5 gives 1 Mafia, 1 Doctor, 1 Detective
\* and 2 Villagers.
C27_RoleCountsAtDefaultRatio ==
    (mafia_ratio = <<1, 4>>) =>
        LET numMafia == Max({1, NearestToQuarter(num_players)})
        IN /\ num_players \in MinPlayers..MaxPlayers
           /\ DOMAIN player_roles = 0..(num_players - 1)
           /\ \A p \in DOMAIN player_roles :
                  player_roles[p] \in {"Mafia", "Doctor", "Detective", "Villager"}
           /\ Cardinality(Holders("Mafia")) = numMafia
           /\ Cardinality(Holders("Doctor")) = 1
           /\ Cardinality(Holders("Detective")) = 1
           /\ Cardinality(Holders("Villager")) = num_players - numMafia - 2
           /\ num_players - numMafia - 2 >= 1
           /\ num_players = 5 => numMafia = 1 /\ Cardinality(Holders("Villager")) = 2

\* Ten players at the default ratio: 2.5 rounds to two Mafia, with six
\* Villagers.
C27_Witness ==
    /\ mafia_ratio = <<1, 4>>
    /\ num_players = 10
    /\ Cardinality(Holders("Mafia")) = 2
    /\ Cardinality(Holders("Villager")) = 6
    /\ lastMove = "reset"

(* ------------------------------------------------------------------ *)
(* C28                                                                  *)
(* ------------------------------------------------------------------ *)

\* C28: day_number is 1 after reset and increases by exactly one each time a
\* day ends (the transition from Day-Voting into Night-Mafia-Discussion); no
\* other step changes it, so that after k days have ended day_number = k + 1.
C28_DayNumberCountsDays == day_number = cycle + 1

(* ------------------------------------------------------------------ *)
(* C29                                                                  *)
(* ------------------------------------------------------------------ *)

\* C29: a call of step on a game that is already terminal is a fatal error
\* raised at once: the action reaches no role handler, and votes,
\* kill_suggestions, to_be_eliminated, the alive players, the phase, the
\* winners and the observation stream are left unchanged.
C29_StepAfterEndChangesNothing ==
    [][done =>
          /\ UNCHANGED <<votes, kill_suggestions, to_be_eliminated, alive_players,
                         phase, winners, detective_inspected>>
          /\ obs' = <<>>]_vars

(* ------------------------------------------------------------------ *)
(* C30                                                                  *)
(* ------------------------------------------------------------------ *)

\* What the rest of a game depends on: the engine's state without the
\* observations already emitted and without detective_inspected, which the
\* code never reads.
GameState(s) ==
    [player_roles |-> s.player_roles, rng |-> s.rng, phase |-> s.phase,
     alive_players |-> s.alive_players, votes |-> s.votes,
     to_be_eliminated |-> s.to_be_eliminated, kill_suggestions |-> s.kill_suggestions,
     next_player_ids |-> s.next_player_ids, current_player_id |-> s.current_player_id,
     done |-> s.done]

\* The game is, after at least one step, in the state reset left it in.
BackAtStart ==
    /\ lastMove # "reset"
    /\ \E prior \in PriorRngStates :
           GameState(Cur) = GameState(Reset(mafia_ratio, num_players, seed, prior))

TurnHoldersAmong(ph, alive) ==
    CASE ph \in {"Night-Mafia-Discussion", "Night-Mafia"} -> alive \cap MafiaSet
      [] ph = "Night-Doctor" -> alive \cap {DoctorPid}
      [] ph = "Night-Detective" -> alive \cap {DetectivePid}
      [] OTHER -> alive

\* C31: the phase advance of reset and of every accepted step terminates.
\* Reset enters one phase; an accepted step that empties the queue enters
\* fewer phases than the seven of a full cycle, none of them twice; every
\* phase it passes through without stopping is one in which no alive player
\* holds a turn, and it stops in a phase whose turn it has given to an alive
\* player of that phase.
C31_PhaseAdvanceTerminates ==
    /\ trail = <<phase>> /\ current_player_id \in TurnHolders(phase)
    /\ [][/\ lastMove' = "valid" => (trail' # <<>>) = (next_player_ids = <<>>)
          /\ lastMove' = "invalid" => trail' = <<>>
          /\ trail' # <<>> =>
                LET n == Len(trail')
                    alive == Range(alive_players')
                IN /\ n < Cardinality(Phases)
                   /\ \A i, j \in 1..n : trail'[i] = trail'[j] => i = j
                   /\ trail'[n] = phase'
                   /\ \A i \in 1..(n - 1) : TurnHoldersAmong(trail'[i], alive) = {}
                   /\ current_player_id' \in TurnHoldersAmong(phase', alive)]_vars

\* A day's vote has removed the last Mafia: the advance passed through the
\* two Mafia phases, where nobody holds a turn, and stopped at the third.
C31_Witness ==
    /\ Len(trail) = 3
    /\ trail[1] = "Night-Mafia-Discussion"
    /\ trail[2] = "Night-Mafia"
    /\ phase = trail[3]
    /\ AliveSet \cap MafiaSet = {}
    /\ current_player_id \in TurnHolders(phase)

(* ------------------------------------------------------------------ *)
(* C32                                                                  *)
(* ------------------------------------------------------------------ *)

\* The step in phase ph recorded t as the target of player p.
RecordedAsTarget(ph, p, t) ==
    CASE ph = "Night-Mafia-Discussion" ->
             kill_suggestions' = AddSuggestion(kill_suggestions, t)
      [] ph = "Night-Mafia" ->
             \/ InList(<<p, t>>, votes')
             \/ /\ finalized' # <<>>
                /\ LET tally == EvaluateVotes(DictSet(votes, p, t))
                   IN finalized'[1].tbe = IF tally = None
                                          THEN MostSuggested(kill_suggestions)
                                          ELSE tally
      [] ph = "Night-Doctor" ->
             (to_be_eliminated = t) => NightVictim(to_be_eliminated', finalized') = None
      [] ph = "Night-Detective" ->
             detective_inspected' = Append(detective_inspected, t)
      [] ph = "Day-Voting" ->
             \/ InList(<<p, t>>, votes')
             \/ \E i \in 1..Len(obs') :
                    /\ obs'[i].kind = "vote_summary"
                    /\ \E k \in 1..(Len(obs'[i].arg) \div 2) :
                           /\ obs'[i].arg[2 * k - 1] = p
                           /\ obs'[i].arg[2 * k] = t
      [] OTHER -> TRUE

\* C32 as stated: when the tagged content holds several player references,
\* the target recorded (vote, suggestion, protected or investigated player)
\* is the first of them.
C32_FirstReferenceIsTheTarget ==
    [][(lastMove' = "valid" /\ Len(action'.refs) >= 2) =>
          RecordedAsTarget(phase, current_player_id, action'.refs[1])]_vars

\* The target recorded is the last reference of the line.
LastReferenceIsTheTarget ==
    [][(lastMove' = "valid" /\ Len(action'.refs) >= 2) =>
          RecordedAsTarget(phase, current_player_id,
                           action'.refs[Len(action'.refs)])]_vars

(* ------------------------------------------------------------------ *)
(* C33                                                                  *)
(* ------------------------------------------------------------------ *)

\* y is x without its leading and trailing white space.
IsTrimOf(y, x) ==
    /\ y # <<>> => (y[1] \notin WhiteSpace /\ y[Len(y)] \notin WhiteSpace)
    /\ \E a \in 0..Len(x) :
           /\ a + Len(y) <= Len(x)
           /\ \A i \in 1..a : x[i] \in WhiteSpace
           /\ \A i \in 1..Len(y) : y[i] = x[a + i]
           /\ \A i \in (a + Len(y) + 1)..Len(x) : x[i] \in WhiteSpace

\* The pieces of text that lie between positions i and j, whichever is first.
TextBetween(text, i, j) ==
    LET lo == IF i < j THEN i ELSE j
        hi == IF i < j THEN j ELSE i
    IN [k \in 1..(hi - lo - 1) |-> text[lo + k]]

\* The returned string without the tags include_tags=True puts around it.
ReturnedContent ==
    IF xml_call.include_tags
    THEN SubSeq(xml_call.returned.content, 2, Len(xml_call.returned.content) - 1)
    ELSE xml_call.returned.content

\* With include_tags=True the returned string opens and closes with the tag.
ReturnedIsWrapped ==
    (xml_call.returned.found /\ xml_call.include_tags) =>
        /\ Len(xml_call.returned.content) >= 2
        /\ Head(xml_call.returned.content) = "<T>"
        /\ xml_call.returned.content[Len(xml_call.returned.content)] = "</T>"

Voters(d) == {d[i][1] : i \in 1..Len(d)}

\* C34: votes is empty whenever a Night-Mafia or a Day-Voting phase begins,
\* and while such a phase lasts votes holds the votes cast in it and no
\* other: one entry for each player who has voted in the phase, each an alive
\* Mafia member in Night-Mafia and an alive player in Day-Voting.  No night
\* vote is counted in a day tally and no day vote in a Mafia tally.
C34_VotesBelongToTheirPhase ==
    /\ votes = <<>>
    /\ [][/\ (trail' # <<>> /\ phase' \in {"Night-Mafia", "Day-Voting"}) => votes' = <<>>
          /\ phase' \in {"Night-Mafia", "Day-Voting"} =>
                 /\ Len(votes') = Cardinality(Voters(votes'))
                 /\ Voters(votes') = {p \in DOMAIN turns' : turns'[p] >= 1}
                 /\ Voters(votes') \subseteq TurnHoldersAmong(phase', Range(alive_players'))
          /\ (phase = "Day-Voting" /\ finalized' # <<>>) =>
                 \E i \in 1..Len(obs') :
                     /\ obs'[i].kind = "vote_summary"
                     /\ Len(obs'[i].arg) = 2 * Len(alive_players)
                     /\ \A k \in 1..Len(alive_players) :
                            obs'[i].arg[2 * k - 1] \in AliveSet]_vars

\* A day's voting begins after a night in which the Mafia voted: votes is
\* empty again.
C34_Witness ==
    /\ phase = "Day-Voting"
    /\ trail = <<"Day-Voting">>
    /\ votes = <<>>
    /\ Len(alive_players) < num_players

(* ------------------------------------------------------------------ *)
(* C35                                                                  *)
(* ------------------------------------------------------------------ *)

\* C35 as stated: every observation the engine emits in a game wrapped by
\* CSVLoggerWrapper, those emitted during reset included, is passed to the
\* logger exactly once, in emission order, and delivered unchanged to the
\* state: the rows written during a call are the observations of that call.
C35_EveryObservationIsLogged == csv_log = obs

\* The observations emitted by step are logged once each, in order.
StepObservationsAreLogged == lastMove # "reset" => csv_log = obs

(* ------------------------------------------------------------------ *)
(* C36                                                                  *)
(* ------------------------------------------------------------------ *)

\* The last call ended with an exception.
Raised(ag) == ag.last_call.raised # "none"

\* C36 as stated: a call before start_game raises RuntimeError; after
\* start_game, when the memory strategy or the base agent raises during a
\* call, the strategy's stored context is cleaned up and the exception that
\* reaches the caller is that same original exception.
C36_ErrorCleansUpAndReraises ==
    [][honcho_agent' # honcho_agent =>
          /\ (~honcho_agent.memory_strategy /\ Raised(honcho_agent')) =>
                 honcho_agent'.last_call.raised = "RuntimeError"
          /\ (honcho_agent.memory_strategy /\ Raised(honcho_agent')) =>
                 /\ honcho_agent'.context = "none"
                 /\ honcho_agent'.last_call.raised = OriginalError]_vars

\* A call before start_game raises RuntimeError and changes nothing else.
CallBeforeStartRaisesRuntimeError ==
    [][(honcho_agent' # honcho_agent /\ ~honcho_agent.memory_strategy
           /\ ~honcho_agent'.memory_strategy) =>
          /\ honcho_agent'.last_call.raised = "RuntimeError"
          /\ honcho_agent'.messages = honcho_agent.messages
          /\ honcho_agent'.context = honcho_agent.context]_vars

(* ------------------------------------------------------------------ *)
(* C37                                                                  *)
(* ------------------------------------------------------------------ *)

\* The players named in the elimination broadcasts of the observations o.
NamedEliminated(o) ==
    LET named == SelectSeq(o, LAMBDA m :
                     m.kind \in {"night_elimination", "day_elimination"} /\ m.arg # <<>>)
    IN [i \in 1..Len(named) |-> named[i].arg[1]]

C38_NoWinLeftUndeclared ==
    (mafia_ratio = <<1, 4>> /\ num_players \in MinPlayers..MaxPlayers /\ ~done) =>
        LET m == Cardinality(AliveSet \cap MafiaSet)
        IN m >= 1 /\ 2 * m < Cardinality(AliveSet)

\* A game of more than five players goes on after two eliminations, one of
\* them of a Mafia member.
C38_Witness ==
    /\ ~done
    /\ num_players > MinPlayers
    /\ lastMove = "valid"
    /\ Len(alive_players) = num_players - 2
    /\ MafiaSet \ AliveSet # {}
    /\ MafiaSet \cap AliveSet # {}

(* ------------------------------------------------------------------ *)
(* C39                                                                  *)
(* ------------------------------------------------------------------ *)

\* The suggestions counted in ks.
Suggestions(ks) == SumOver(ks, DOMAIN ks)

\* C39: kill_suggestions is empty whenever a Night-Mafia-Discussion begins
\* and holds, while it lasts, one count for each suggestion accepted in it.
\* Whenever the Night-Mafia tally finds no strict plurality and falls back
\* to kill_suggestions, it is not empty and its counts sum to twice the
\* number of alive Mafia: the maximum is never taken over an empty map.
C39_SuggestionsOfTheNight ==
    /\ kill_suggestions = <<>>
    /\ [][/\ (trail' # <<>> /\ phase' = "Night-Mafia-Discussion") =>
                 kill_suggestions' = <<>>
          /\ phase' = "Night-Mafia-Discussion" =>
                 Suggestions(kill_suggestions') = SumOver(turns', DOMAIN turns')
          /\ (phase = "Night-Mafia" /\ lastMove' = "valid" /\ next_player_ids = <<>>
                 /\ EvaluateVotes(DictSet(votes, current_player_id, VotedPid(action')))
                        = None) =>
                 /\ DOMAIN kill_suggestions # {}
                 /\ Suggestions(kill_suggestions)
                        = 2 * Cardinality(AliveSet \cap MafiaSet)
                 /\ NightVictim(to_be_eliminated', finalized')
                        = MostSuggested(kill_suggestions)
                 /\ kill_suggestions' = <<>>]_vars

\* Two Mafia members have voted for different players and the tally has
\* fallen back to the four suggestions of the night.
C39_Witness ==
    /\ phase \in {"Night-Doctor", "Night-Detective"}
    /\ trail # <<>>
    /\ Len(votes) = 2
    /\ votes[1][2] # votes[2][2]
    /\ kill_suggestions = <<>>
    /\ to_be_eliminated # None

(* ------------------------------------------------------------------ *)
(* C40                                                                  *)
(* ------------------------------------------------------------------ *)

\* The vote summaries among the observations o.
VoteSummaries(o) == SelectSeq(o, LAMBDA m : m.kind = "vote_summary")

\* The voters listed in a vote summary.
SummaryVoters(m) == {m.arg[2 * k - 1] : k \in 1..(Len(m.arg) \div 2)}

\* C40: in each Night-Mafia and each Day-Voting phase the tally runs exactly
\* once, in the step in which the last queued voter submits a valid vote.
\* Until then, and when that last voter's submission is invalid, no tally
\* runs: to_be_eliminated and kill_suggestions stay as they are and no voting
\* result is announced.  At the tally the recorded voters are the players
\* queued for the phase: all alive Mafia, respectively all alive players.
C40_TallyOnceAtTheLastValidVote ==
    [][LET last == next_player_ids = <<>> /\ lastMove' = "valid"
           cast == DictSet(votes, current_player_id, VotedPid(action'))
       IN /\ Len(VoteSummaries(obs')) = IF phase = "Day-Voting" /\ last THEN 1 ELSE 0
          /\ (phase = "Day-Voting" /\ last) =>
                 /\ SummaryVoters(VoteSummaries(obs')[1]) = AliveSet
                 /\ Voters(cast) = AliveSet
                 /\ finalized' # <<>>
                 /\ finalized'[1].tbe = EvaluateVotes(cast)
          /\ (phase = "Night-Mafia" /\ last) =>
                 /\ Voters(cast) = AliveSet \cap MafiaSet
                 /\ kill_suggestions' = <<>>
                 /\ NightVictim(to_be_eliminated', finalized') =
                        IF EvaluateVotes(cast) = None
                        THEN MostSuggested(kill_suggestions)
                        ELSE EvaluateVotes(cast)
          /\ (phase \in {"Night-Mafia", "Day-Voting"} /\ ~last) =>
                 /\ to_be_eliminated' = to_be_eliminated
                 /\ kill_suggestions' = kill_suggestions
                 /\ finalized' = <<>>
                 /\ phase' = phase
          /\ (phase \in {"Night-Mafia", "Day-Voting"} /\ lastMove' = "invalid") =>
                 votes' = votes /\ current_player_id' = current_player_id]_vars

\* The last of two Mafia voters first submits an invalid vote, which runs no
\* tally, and keeps the turn.
C40_Witness ==
    /\ phase = "Night-Mafia"
    /\ next_player_ids = <<>>
    /\ lastMove = "invalid"
    /\ Len(votes) = 1
    /\ kill_suggestions # <<>>
    /\ to_be_eliminated = None

====
